---- MODULE Spec2Model ----
(***************************************************************************)
(* Model of nuxhash/gui/mining.py: MiningThread (the mining orchestration  *)
(* loop built on sched.scheduler) together with the GUI-side stop          *)
(* operation MiningScreen._stop_thread.                                    *)
(*                                                                         *)
(* Two threads are modelled: the mining thread (variable pc is its         *)
(* position in run / _switch_algos / _read_status / _stop_mining) and the  *)
(* GUI thread (variable gui is its position in _stop_thread).  The clock   *)
(* time.time() is the variable now; it may advance between any two steps.  *)
(***************************************************************************)
EXTENDS Integers, FiniteSets, Sequences, TLC

\* ---------------------------------------------------------------- bounds
MaxTime == 5
MaxStops == 1

\* ------------------------------------------------------- program constants
MINING_UPDATE_SECS == 5
PROFIT_PRIORITY_afterStatus == 2 + 1
PROFIT_PRIORITY == 1
STATUS_PRIORITY == 2
STOP_PRIORITY_lowest == STATUS_PRIORITY + 1
STOP_PRIORITY == 0

\* settings['switching']['interval'] values tried
Intervals == {3, 5}

\* self._devices, in dictionary order
DeviceSeq == <<"d1", "d2">>
Devices == {DeviceSeq[i] : i \in 1..Len(DeviceSeq)}

\* self._miners: the single Excavator instance
Miners == {"excavator"}

\* self._algorithms, in list order, all owned by the Excavator
AlgoSeq == <<"X", "Y">>
Algorithms == {AlgoSeq[i] : i \in 1..Len(AlgoSeq)}
Parent(algorithm) == "excavator"

\* payrates a successful simplemultialgo_info call may return
PayRateChoices == {[A |-> 1, B |-> 2], [A |-> 2, B |-> 1]}

\* values of attributes that have not been assigned yet
NoPayRates == [A |-> 0, B |-> 0]
NoAssignments == [device \in Devices |-> "unset"]

\* assignments the profit switcher may return from decide()
Assignments == [Devices -> Algorithms]

\* algorithm.algorithms: the NiceHash sub-algorithms an algorithm mines
algorithms(algorithm) == IF algorithm = "X" THEN <<"A", "B">> ELSE <<"B">>
SubAlgorithms == {"A", "B"}

\* the benchmark table the thread is constructed with: d1 has speeds for
\* both algorithms, d2 has none for Y
Benchmarks ==
    [device \in Devices |->
        IF device = "d1" THEN [X |-> <<10, 5>>, Y |-> <<5>>]
                         ELSE [X |-> <<5, 10>>]]

\* revenues before _switch_algos has built the table
NoRevenues == [device \in Devices |-> [algorithm \in Algorithms |-> 0]]

VARIABLES
    now,               \* time.time()
    interval,          \* settings['switching']['interval']
    pc,                \* position of the mining thread
    raised,            \* the call whose exception ended the mining thread
    queue,             \* self._scheduler._queue
    sequence,          \* self._scheduler._sequence_generator
    stop_signal,       \* self._stop_signal
    deadline,          \* end of the current self._stop_signal.wait(t)
    miners,            \* per miner: created, running (process alive), unloads
    devs,              \* per algorithm: the device set last given to set_devices
    current_payrates,  \* self._current_payrates
    fetch,             \* outcome of the latest simplemultialgo_info call
    assigned_algorithm,\* local of _switch_algos: what decide() returned
    assignments,       \* self._assignments
    idx,               \* loop index inside the running job
    reloads,           \* reload() calls made by the running _read_status
    sm_runs,           \* number of _stop_mining invocations begun
    sm_cleared,        \* algorithms cleared by the running _stop_mining
    sm_unloaded,       \* miners unloaded by the running _stop_mining
    sm_events,         \* self._scheduler.queue as read by _stop_mining
    sm_drained,        \* the running _stop_mining has emptied the scheduler
    posted,            \* number of MiningStatusEvents posted to the window
    gui,               \* position of the GUI thread in _stop_thread
    stops,             \* number of stop() calls that returned
    stoppedAt,         \* lifecycle state of the thread when stop() was first called
    benchmarks,        \* self._benchmarks
    revenues           \* local of _switch_algos: the BTC/day table

vars == <<now, interval, pc, raised, queue, sequence, stop_signal, deadline,
          miners, devs, current_payrates, fetch, assigned_algorithm,
          assignments, idx, reloads, sm_runs, sm_cleared, sm_unloaded,
          sm_events, sm_drained, posted, gui, stops, stoppedAt, benchmarks,
          revenues>>

schedVars == <<queue, sequence, deadline>>
engineVars == <<miners, devs>>
switchVars == <<current_payrates, fetch, assigned_algorithm, assignments>>
revenueVars == <<benchmarks, revenues>>
stopJobVars == <<sm_runs, sm_cleared, sm_unloaded, sm_events, sm_drained>>
statusVars == <<reloads, posted>>
guiVars == <<gui, stops, stoppedAt, stop_signal>>

\* ------------------------------------------------------------ scheduler
Event(time, priority, seq, action) ==
    [time |-> time, priority |-> priority, sequence |-> seq, action |-> action]

\* Event ordering of sched: by time, then priority, then sequence
Before(e, f) ==
    \/ e.time < f.time
    \/ e.time = f.time /\ e.priority < f.priority
    \/ e.time = f.time /\ e.priority = f.priority /\ e.sequence < f.sequence

\* q[0] of the heap
QueueHead(q) == CHOOSE e \in q : \A f \in q \ {e} : Before(e, f)

\* scheduler.enter(delay, priority, action)
Enter(q, delay, priority, action) ==
    q \cup {Event(now + delay, priority, sequence, action)}

InitPcs == {"init_fetch", "init_miners", "init_enter_profit", "init_enter_status"}
SwitchPcs == {"sw_fetch", "sw_decide", "sw_apply", "sw_enter"}
StatusPcs == {"rs_check", "rs_speeds", "rs_post", "rs_enter"}
StopPcs == {"sm_clear", "sm_unload", "sm_queue", "sm_cancel"}
DeadPcs == {"terminated", "crashed"}
RunningPcs == {"sched", "wait"} \cup SwitchPcs \cup StatusPcs

\* lifecycle state of the thread at a position
Phase(p) ==
    CASE p \in InitPcs -> "Initializing"
      [] p \in RunningPcs -> "Running"
      [] p \in StopPcs -> "Stopping"
      [] p \in DeadPcs -> "Terminated"

\* An uncaught exception leaves run(): the thread ends
Raise(call) ==
    /\ pc' = "crashed"
    /\ raised' = call

Init ==
    /\ now = 0
    /\ interval \in Intervals
    /\ pc = "init_fetch"
    /\ raised = "none"
    /\ queue = {}
    /\ sequence = 0
    /\ stop_signal = FALSE
    /\ deadline = 0
    /\ miners = [m \in Miners |-> [created |-> FALSE, running |-> FALSE, unloads |-> 0]]
    /\ devs = [a \in Algorithms |-> {}]
    /\ current_payrates = NoPayRates
    /\ fetch = "none"
    /\ assigned_algorithm = NoAssignments
    /\ assignments = NoAssignments
    /\ idx = 0
    /\ reloads = 0
    /\ sm_runs = 0
    /\ sm_cleared = {}
    /\ sm_unloaded = {}
    /\ sm_events = {}
    /\ sm_drained = FALSE
    /\ posted = 0
    /\ gui = "idle"
    /\ stops = 0
    /\ stoppedAt = "none"
    /\ benchmarks = Benchmarks
    /\ revenues = NoRevenues

\* --------------------------------------------------------------- clock
\* Time passes.  The mining thread reads the clock only in enter() and at
\* the top of the scheduler loop, and every delay it passes to enter() is
\* positive except in run(); so it is enough to let time pass in the loop,
\* at the first position of every periodic job and between the two enter()
\* calls of run().  stop() reads the clock wherever the mining thread is.
TickPcs == {"init_enter_status", "sched", "wait", "sw_fetch", "rs_check"}

Tick ==
    /\ now < MaxTime
    /\ pc \in TickPcs
    /\ now' = now + 1
    /\ UNCHANGED <<interval, pc, raised, schedVars, engineVars, switchVars,
                   idx, stopJobVars, statusVars, guiVars,
                   revenueVars>>

\* ----------------------------------------------------- environment: engine
\* The external miner process may die at any moment while loaded; only the
\* liveness loop of _read_status looks at it
EngineCrash ==
    /\ pc = "rs_check"
    /\ \E m \in Miners :
        /\ miners[m].created
        /\ miners[m].running
        /\ miners[m].unloads = 0
        /\ miners' = [miners EXCEPT ![m].running = FALSE]
    /\ UNCHANGED <<now, interval, pc, raised, schedVars, devs, switchVars,
                   idx, stopJobVars, statusVars, guiVars,
                   revenueVars>>

\* ------------------------------------------------------ MiningThread.run
\* run(): the initial simplemultialgo_info call succeeds
InitFetchOk ==
    /\ pc = "init_fetch"
    /\ fetch' = "ok"
    /\ pc' = "init_miners"
    /\ UNCHANGED <<now, interval, raised, schedVars, engineVars,
                   current_payrates, assigned_algorithm, assignments,
                   idx, stopJobVars, statusVars, guiVars,
                   revenueVars>>

\* run(): the initial call fails; evaluating the except clause
\* (socket.error, ...) raises NameError because socket is never imported
InitFetchFail ==
    /\ pc = "init_fetch"
    /\ \E err \in {"URLError", "BadResponseError"} : fetch' = err
    /\ Raise("run.simplemultialgo_info")
    /\ UNCHANGED <<now, interval, schedVars, engineVars,
                   current_payrates, assigned_algorithm, assignments,
                   idx, stopJobVars, statusVars, guiVars,
                   revenueVars>>

\* run(): create the miners, their algorithms and the profit switcher
InitMiners ==
    /\ pc = "init_miners"
    /\ miners' = [m \in Miners |-> [created |-> TRUE, running |-> TRUE, unloads |-> 0]]
    /\ pc' = "init_enter_profit"
    /\ UNCHANGED <<now, interval, raised, schedVars, devs, switchVars,
                   idx, stopJobVars, statusVars, guiVars,
                   revenueVars>>

\* run(): self._scheduler.enter(0, PROFIT_PRIORITY, self._switch_algos)
InitEnterProfit ==
    /\ pc = "init_enter_profit"
    /\ queue' = Enter(queue, 0, PROFIT_PRIORITY, "_switch_algos")
    /\ sequence' = sequence + 1
    /\ pc' = "init_enter_status"
    /\ UNCHANGED <<now, interval, raised, deadline, engineVars,
                   switchVars, idx, stopJobVars, statusVars, guiVars,
                   revenueVars>>

\* run(): self._scheduler.enter(0, STATUS_PRIORITY, self._read_status)
InitEnterStatus ==
    /\ pc = "init_enter_status"
    /\ queue' = Enter(queue, 0, STATUS_PRIORITY, "_read_status")
    /\ sequence' = sequence + 1
    /\ pc' = "sched"
    /\ UNCHANGED <<now, interval, raised, deadline, engineVars,
                   switchVars, idx, stopJobVars, statusVars, guiVars,
                   revenueVars>>

\* ------------------------------------------------- self._scheduler.run()
\* first statement of each job, were _stop_mining to start at its second loop
EntryWithoutClearing(action) ==
    CASE action = "_switch_algos" -> "sw_fetch"
      [] action = "_read_status" -> "rs_check"
      [] action = "_stop_mining" -> "sm_unload"

\* first statement of each job
Entry(action) ==
    CASE action = "_switch_algos" -> "sw_fetch"
      [] action = "_read_status" -> "rs_check"
      [] action = "_stop_mining" -> "sm_clear"

\* the queue is empty: run() returns and the thread ends
SchedExit ==
    /\ pc = "sched"
    /\ queue = {}
    /\ pc' = "terminated"
    /\ UNCHANGED <<now, interval, raised, schedVars, engineVars, switchVars,
                   idx, stopJobVars, statusVars, guiVars,
                   revenueVars>>

\* the first event is not due: delayfunc(time - now)
SchedDelay ==
    /\ pc = "sched"
    /\ queue # {}
    /\ QueueHead(queue).time > now
    /\ deadline' = QueueHead(queue).time
    /\ pc' = "wait"
    /\ UNCHANGED <<now, interval, raised, queue, sequence, engineVars,
                   switchVars, idx, stopJobVars, statusVars, guiVars,
                   revenueVars>>

\* the wait, were it a plain sleep that the signal cannot end
WaitOver_timeoutOnly == now >= deadline

\* Event.wait(t) is over: the signal is set or t has elapsed
WaitOver == stop_signal \/ now >= deadline

\* self._stop_signal.wait(t) returns
WaitReturn ==
    /\ pc = "wait"
    /\ WaitOver
    /\ deadline' = 0
    /\ pc' = "sched"
    /\ UNCHANGED <<now, interval, raised, queue, sequence, engineVars, switchVars,
                   idx, stopJobVars, statusVars, guiVars,
                   revenueVars>>

\* the first event is due: pop it and call its action
SchedPop ==
    /\ pc = "sched"
    /\ queue # {}
    /\ QueueHead(queue).time <= now
    /\ queue' = queue \ {QueueHead(queue)}
    /\ pc' = Entry(QueueHead(queue).action)
    /\ idx' = 1
    /\ reloads' = 0
    /\ IF QueueHead(queue).action = "_stop_mining"
       THEN /\ sm_runs' = sm_runs + 1
            /\ sm_cleared' = {}
            /\ sm_unloaded' = {}
            /\ sm_events' = {}
            /\ sm_drained' = FALSE
       ELSE UNCHANGED stopJobVars
    /\ UNCHANGED <<now, interval, raised, sequence, deadline, engineVars,
                   switchVars, posted, guiVars,
                   revenueVars>>

\* ------------------------------------------- MiningThread._switch_algos
\* the profitability download succeeds: self._current_payrates = payrates
SwitchFetchOk ==
    /\ pc = "sw_fetch"
    /\ \E payrates \in PayRateChoices : current_payrates' = payrates
    /\ fetch' = "ok"
    /\ pc' = "sw_decide"
    /\ UNCHANGED <<now, interval, raised, schedVars, engineVars,
                   assigned_algorithm, assignments, idx, stopJobVars,
                   statusVars, guiVars,
                   revenueVars>>

\* the download fails; evaluating the first except clause
\* (socket.error, ...) raises NameError because socket is never imported
SwitchFetchFail ==
    /\ pc = "sw_fetch"
    /\ \E err \in {"URLError", "BadResponseError"} : fetch' = err
    /\ Raise("_switch_algos.simplemultialgo_info")
    /\ UNCHANGED <<now, interval, schedVars, engineVars, current_payrates,
                   assigned_algorithm, assignments, idx, stopJobVars,
                   statusVars, guiVars,
                   revenueVars>>

\* sum([...]) over a list
RECURSIVE sum(_)
sum(list) == IF list = <<>> THEN 0 ELSE Head(list) + sum(Tail(list))

\* revenue, were only the first sub-algorithm counted
revenue_firstOnly(device, algorithm) ==
    IF algorithm \in DOMAIN benchmarks[device]
    THEN current_payrates[algorithms(algorithm)[1]]
            * benchmarks[device][algorithm][1]
    ELSE 0

\* revenue(device, algorithm): BTC/day at the downloaded pay rates
revenue(device, algorithm) ==
    IF algorithm \in DOMAIN benchmarks[device]
    THEN sum([i \in 1..Len(algorithms(algorithm)) |->
                current_payrates[algorithms(algorithm)[i]]
                    * benchmarks[device][algorithm][i]])
    ELSE 0

\* revenues = {device: {algorithm: revenue(device, algorithm) ...} ...}
\* assigned_algorithm = self._profit_switch.decide(revenues, download_time)
\* self._assignments = assigned_algorithm
SwitchDecide ==
    /\ pc = "sw_decide"
    /\ revenues' = [device \in Devices |->
                        [algorithm \in Algorithms |-> revenue(device, algorithm)]]
    /\ \E decision \in Assignments :
        /\ assigned_algorithm' = decision
        /\ assignments' = decision
    /\ idx' = 1
    /\ pc' = "sw_apply"
    /\ UNCHANGED <<now, interval, raised, schedVars, engineVars,
                   current_payrates, fetch, stopJobVars, statusVars, guiVars,
                   benchmarks>>

\* assignments decide() may return when it leaves devices unassigned
AssignmentsUnassigned ==
    [Devices -> Algorithms \cup {"None"}] \ Assignments

\* decide() returns an assignment that leaves some device unassigned
SwitchDecideUnassigned ==
    /\ pc = "sw_decide"
    /\ revenues' = [device \in Devices |->
                        [algorithm \in Algorithms |-> revenue(device, algorithm)]]
    /\ \E decision \in AssignmentsUnassigned :
        /\ assigned_algorithm' = decision
        /\ assignments' = decision
    /\ idx' = 1
    /\ pc' = "sw_apply"
    /\ UNCHANGED <<now, interval, raised, schedVars, engineVars,
                   current_payrates, fetch, stopJobVars, statusVars, guiVars,
                   benchmarks>>

\* decide() raises
SwitchDecideFail ==
    /\ pc = "sw_decide"
    /\ Raise("_switch_algos.decide")
    /\ UNCHANGED <<now, interval, schedVars, engineVars, switchVars, idx,
                   stopJobVars, statusVars, guiVars,
                   revenueVars>>

\* this_devices, were the previous assignments consulted instead
this_devices_stale(assigned, this_algorithm) ==
    {device \in DOMAIN assigned : assigned[device] = this_algorithm}
        \cup devs[this_algorithm]

\* this_devices of the apply loop
this_devices(assigned, this_algorithm) ==
    {device \in DOMAIN assigned : assigned[device] = this_algorithm}

\* one iteration of the apply loop: this_algorithm.set_devices(this_devices)
SwitchApply ==
    /\ pc = "sw_apply"
    /\ devs' = [devs EXCEPT ![AlgoSeq[idx]] =
                    this_devices(assigned_algorithm, AlgoSeq[idx])]
    /\ idx' = idx + 1
    /\ pc' = IF idx = Len(AlgoSeq) THEN "sw_enter" ELSE "sw_apply"
    /\ UNCHANGED <<now, interval, raised, schedVars, miners, switchVars,
                   stopJobVars, statusVars, guiVars,
                   revenueVars>>

\* set_devices raises inside the apply loop
SwitchApplyFail ==
    /\ pc = "sw_apply"
    /\ Raise("_switch_algos.set_devices")
    /\ UNCHANGED <<now, interval, schedVars, engineVars, switchVars, idx,
                   stopJobVars, statusVars, guiVars,
                   revenueVars>>

\* _switch_algos, were it to return without entering its successor
SwitchEnter_missing ==
    /\ pc = "sw_enter"
    /\ revenues' = NoRevenues
    /\ pc' = "sched"
    /\ UNCHANGED <<now, interval, raised, schedVars, engineVars,
                   switchVars, idx, stopJobVars, statusVars, guiVars,
                   benchmarks>>

\* self._scheduler.enter(interval, PROFIT_PRIORITY, self._switch_algos)
SwitchEnter ==
    /\ pc = "sw_enter"
    /\ queue' = Enter(queue, interval, PROFIT_PRIORITY, "_switch_algos")
    /\ sequence' = sequence + 1
    /\ revenues' = NoRevenues
    /\ pc' = "sched"
    /\ UNCHANGED <<now, interval, raised, deadline, engineVars,
                   switchVars, idx, stopJobVars, statusVars, guiVars,
                   benchmarks>>

\* -------------------------------------------- MiningThread._read_status
\* running_algorithms = self._assignments.values(): one entry per device
running_algorithms(assigned) ==
    [i \in 1..Len(DeviceSeq) |-> assigned[DeviceSeq[i]]]

\* liveness loop, engine alive: algorithm.parent.is_running() is true
StatusCheckRunning ==
    /\ pc = "rs_check"
    /\ assignments # NoAssignments
    /\ running_algorithms(assignments)[idx] \in Algorithms
    /\ miners[Parent(running_algorithms(assignments)[idx])].running
    /\ idx' = idx + 1
    /\ pc' = IF idx = Len(DeviceSeq) THEN "rs_speeds" ELSE "rs_check"
    /\ UNCHANGED <<now, interval, raised, schedVars, engineVars, switchVars,
                   stopJobVars, statusVars, guiVars,
                   revenueVars>>

\* the reload, were it to hand the restarted engine empty device sets
StatusCheckReload_resetting ==
    /\ pc = "rs_check"
    /\ assignments # NoAssignments
    /\ running_algorithms(assignments)[idx] \in Algorithms
    /\ LET miner == Parent(running_algorithms(assignments)[idx]) IN
        /\ ~miners[miner].running
        /\ miners' = [miners EXCEPT ![miner].running = TRUE]
        /\ devs' = [a \in Algorithms |->
                        IF Parent(a) = miner THEN {} ELSE devs[a]]
    /\ reloads' = reloads + 1
    /\ idx' = idx + 1
    /\ pc' = IF idx = Len(DeviceSeq) THEN "rs_speeds" ELSE "rs_check"
    /\ UNCHANGED <<now, interval, raised, schedVars, switchVars,
                   stopJobVars, posted, guiVars, revenueVars>>

\* liveness loop, engine dead: algorithm.parent.reload()
StatusCheckReload ==
    /\ pc = "rs_check"
    /\ assignments # NoAssignments
    /\ running_algorithms(assignments)[idx] \in Algorithms
    /\ LET miner == Parent(running_algorithms(assignments)[idx]) IN
        /\ ~miners[miner].running
        /\ miners' = [miners EXCEPT ![miner].running = TRUE]
    /\ reloads' = reloads + 1
    /\ idx' = idx + 1
    /\ pc' = IF idx = Len(DeviceSeq) THEN "rs_speeds" ELSE "rs_check"
    /\ UNCHANGED <<now, interval, raised, schedVars, devs, switchVars,
                   stopJobVars, posted, guiVars,
                   revenueVars>>

\* liveness loop: is_running() raises, or reload() of a dead engine raises
StatusCheckFail ==
    /\ pc = "rs_check"
    /\ assignments # NoAssignments
    /\ running_algorithms(assignments)[idx] \in Algorithms
    /\ LET miner == Parent(running_algorithms(assignments)[idx]) IN
        \/ /\ Raise("_read_status.is_running")
           /\ UNCHANGED reloads
        \/ /\ ~miners[miner].running
           /\ Raise("_read_status.reload")
           /\ reloads' = reloads + 1
    /\ UNCHANGED <<now, interval, schedVars, engineVars, switchVars, idx,
                   stopJobVars, posted, guiVars,
                   revenueVars>>

\* liveness loop, reached with a device that decide() left unassigned:
\* None has no attribute parent, AttributeError
StatusCheckUnassigned ==
    /\ pc = "rs_check"
    /\ assignments # NoAssignments
    /\ running_algorithms(assignments)[idx] = "None"
    /\ Raise("_read_status.parent")
    /\ UNCHANGED <<now, interval, schedVars, engineVars, switchVars, idx,
                   stopJobVars, statusVars, guiVars, revenueVars>>

\* speeds and revenue of every running algorithm are computed
StatusSpeeds ==
    /\ pc = "rs_speeds"
    /\ pc' = "rs_post"
    /\ UNCHANGED <<now, interval, raised, schedVars, engineVars, switchVars,
                   idx, stopJobVars, statusVars, guiVars,
                   revenueVars>>

\* current_speeds() raises
StatusSpeedsFail ==
    /\ pc = "rs_speeds"
    /\ Raise("_read_status.current_speeds")
    /\ UNCHANGED <<now, interval, schedVars, engineVars, switchVars, idx,
                   stopJobVars, statusVars, guiVars,
                   revenueVars>>

\* MiningStatusEvent(speeds=speeds, revenue=revenue, devices=devices):
\* the three dictionaries are built over running_algorithms; speeds and
\* revenue are kept by their key sets
MiningStatusEvent(assigned) ==
    LET keys == {running_algorithms(assigned)[i] : i \in 1..Len(DeviceSeq)} IN
    [speeds |-> keys,
     revenue |-> keys,
     devices |-> [algorithm \in keys |->
                    {device \in DOMAIN assigned : assigned[device] = algorithm}]]

\* wx.PostEvent(self._window, MiningStatusEvent(...))
StatusPost ==
    /\ pc = "rs_post"
    /\ posted' = posted + 1
    /\ pc' = "rs_enter"
    /\ UNCHANGED <<now, interval, raised, schedVars, engineVars, switchVars,
                   idx, stopJobVars, reloads, guiVars,
                   revenueVars>>

\* self._scheduler.enter(MINING_UPDATE_SECS, STATUS_PRIORITY, self._read_status)
StatusEnter ==
    /\ pc = "rs_enter"
    /\ queue' = Enter(queue, MINING_UPDATE_SECS, STATUS_PRIORITY, "_read_status")
    /\ sequence' = sequence + 1
    /\ pc' = "sched"
    /\ UNCHANGED <<now, interval, raised, deadline, engineVars,
                   switchVars, idx, stopJobVars, statusVars, guiVars,
                   revenueVars>>

\* -------------------------------------------- MiningThread._stop_mining
\* one iteration of the first loop: algorithm.set_devices([])
StopClear ==
    /\ pc = "sm_clear"
    /\ devs' = [devs EXCEPT ![AlgoSeq[idx]] = {}]
    /\ sm_cleared' = sm_cleared \cup {AlgoSeq[idx]}
    /\ idx' = idx + 1
    /\ pc' = IF idx = Len(AlgoSeq) THEN "sm_unload" ELSE "sm_clear"
    /\ UNCHANGED <<now, interval, raised, schedVars, miners, switchVars,
                   sm_runs, sm_unloaded, sm_events, sm_drained, statusVars,
                   guiVars,
                   revenueVars>>

\* set_devices([]) raises
StopClearFail ==
    /\ pc = "sm_clear"
    /\ Raise("_stop_mining.set_devices")
    /\ UNCHANGED <<now, interval, schedVars, engineVars, switchVars, idx,
                   stopJobVars, statusVars, guiVars,
                   revenueVars>>

\* second loop: miner.unload() for every miner
StopUnload ==
    /\ pc = "sm_unload"
    /\ miners' = [m \in Miners |->
                    [miners[m] EXCEPT !.running = FALSE, !.unloads = @ + 1]]
    /\ sm_unloaded' = Miners
    /\ pc' = "sm_queue"
    /\ UNCHANGED <<now, interval, raised, schedVars, devs, switchVars, idx,
                   sm_runs, sm_cleared, sm_events, sm_drained, statusVars,
                   guiVars,
                   revenueVars>>

\* unload() raises
StopUnloadFail ==
    /\ pc = "sm_unload"
    /\ Raise("_stop_mining.unload")
    /\ UNCHANGED <<now, interval, schedVars, engineVars, switchVars, idx,
                   stopJobVars, statusVars, guiVars,
                   revenueVars>>

\* self._scheduler.queue is read: a copy of the pending events
StopQueue ==
    /\ pc = "sm_queue"
    /\ sm_events' = queue
    /\ pc' = "sm_cancel"
    /\ UNCHANGED <<now, interval, raised, schedVars, engineVars, switchVars,
                   idx, sm_runs, sm_cleared, sm_unloaded, sm_drained,
                   statusVars, guiVars,
                   revenueVars>>

\* the queue, were the cancelling loop missing
CancelNone(q, events) == q

\* the queue, were only the first job read cancelled
CancelFirst(q, events) ==
    IF events = {} THEN q ELSE q \ {QueueHead(events)}

\* the queue after self._scheduler.cancel(job) for every job read
Cancel(q, events) == q \ events

\* third loop: every event read is cancelled; _stop_mining returns
StopCancel ==
    /\ pc = "sm_cancel"
    /\ queue' = Cancel(queue, sm_events)
    /\ sm_drained' = TRUE
    /\ pc' = "sched"
    /\ UNCHANGED <<now, interval, raised, sequence, deadline,
                   engineVars, switchVars, idx, sm_runs, sm_cleared,
                   sm_unloaded, sm_events, statusVars, guiVars,
                   revenueVars>>

\* ------------------------ MiningThread.stop and MiningScreen._stop_thread
\* stop(): self._scheduler.enter(0, STOP_PRIORITY, self._stop_mining)
StopCall ==
    /\ gui = "idle"
    /\ stops < MaxStops
    /\ queue' = Enter(queue, 0, STOP_PRIORITY, "_stop_mining")
    /\ sequence' = sequence + 1
    /\ stoppedAt' = IF stoppedAt # "none" THEN stoppedAt
                     ELSE IF pc = "wait" /\ now < deadline THEN "Waiting"
                     ELSE Phase(pc)
    /\ gui' = "stop_set"
    /\ UNCHANGED <<now, interval, pc, raised, deadline, engineVars,
                   switchVars, idx, stopJobVars, statusVars, stops,
                   stop_signal,
                   revenueVars>>

\* stop(): self._stop_signal.set(); stop() returns
StopSignal ==
    /\ gui = "stop_set"
    /\ stop_signal' = TRUE
    /\ stops' = stops + 1
    /\ gui' = "idle"
    /\ UNCHANGED <<now, interval, pc, raised, schedVars, engineVars,
                   switchVars, idx, stopJobVars, statusVars, stoppedAt,
                   revenueVars>>

\* _stop_thread: self._thread.join() returns once the thread has ended
Join ==
    /\ gui = "idle"
    /\ stops >= 1
    /\ pc \in DeadPcs
    /\ gui' = "joined"
    /\ UNCHANGED <<now, interval, pc, raised, schedVars, engineVars,
                   switchVars, idx, stopJobVars, statusVars, stops,
                   stoppedAt, stop_signal,
                   revenueVars>>

Next ==
    \/ Tick
    \/ EngineCrash
    \/ InitFetchOk
    \/ InitFetchFail
    \/ InitMiners
    \/ InitEnterProfit
    \/ InitEnterStatus
    \/ SchedExit
    \/ SchedDelay
    \/ WaitReturn
    \/ SchedPop
    \/ SwitchFetchOk
    \/ SwitchFetchFail
    \/ SwitchDecide
    \/ SwitchDecideFail
    \/ SwitchApply
    \/ SwitchApplyFail
    \/ SwitchEnter
    \/ StatusCheckRunning
    \/ StatusCheckReload
    \/ StatusCheckFail
    \/ StatusSpeeds
    \/ StatusSpeedsFail
    \/ StatusPost
    \/ StatusEnter
    \/ StopClear
    \/ StopClearFail
    \/ StopUnload
    \/ StopUnloadFail
    \/ StopQueue
    \/ StopCancel
    \/ StopCall
    \/ StopSignal
    \/ Join

Spec == Init /\ [][Next]_vars

\* ------------------------------------------------------------- properties
JobPcs == {"sw_fetch", "rs_check", "sm_clear"}
PeriodicPcs == {"sw_fetch", "rs_check"}

\* a step of the scheduler loop that pops an event and invokes its action
Invokes == pc = "sched" /\ pc' \in JobPcs /\ queue' # queue

\* the event such a step pops
Invoked == CHOOSE e \in queue : e \notin queue'

\* C1: once _stop_mining has started, and in particular once stop() and
\* join() have returned, no MiningStatusEvent is posted any more.
C1_NoStatusAfterShutdown ==
    [][(sm_runs > 0 \/ gui = "joined") => posted' = posted]_vars

\* C1 witness: the stop operation returned after a shutdown that cancelled a
\* pending _read_status job, status events having been posted before.
C1_Witness ==
    /\ gui = "joined"
    /\ pc = "terminated"
    /\ posted >= 1
    /\ sm_drained
    /\ \E e \in sm_events : e.action = "_read_status"

\* C2: in every execution of _stop_mining, every algorithm has been given
\* set_devices([]) before any miner is unloaded, and the scheduler queue is
\* emptied only after every miner is unloaded.
C2_ShutdownOrder ==
    /\ sm_unloaded # {} => sm_cleared = Algorithms
    /\ sm_drained => sm_unloaded = Miners

\* C2 witness: a shutdown that went through all three loops while devices
\* were assigned.
C2_Witness ==
    /\ sm_drained
    /\ sm_cleared = Algorithms
    /\ sm_unloaded = Miners
    /\ assignments \in Assignments
    /\ \A a \in Algorithms : devs[a] = {}

\* C3: whenever stop() and join() have returned, every algorithm's device
\* set is empty and every miner that was created has been unloaded.
C3_NoEngineLeftRunning ==
    gui = "joined" =>
        /\ \A a \in Algorithms : devs[a] = {}
        /\ \A m \in Miners : miners[m].created => miners[m].unloads > 0

\* C4: after stop() has been called on a Running thread, no _switch_algos
\* or _read_status invocation begins before _stop_mining starts.
C4_StopRunsNext ==
    [][(stops >= 1 /\ stoppedAt \in {"Running", "Waiting"} /\ sm_runs = 0)
            => ~(pc = "sched" /\ pc' \in PeriodicPcs)]_vars

\* C5: the scheduler invokes the pending job that is smallest by (due time,
\* priority): _switch_algos before a _read_status due at the same instant,
\* and _stop_mining before any pending _switch_algos or _read_status that is
\* due at the same instant as the stop job or later.
C5_TieBreak ==
    [][Invokes =>
        /\ pc' = Entry(Invoked.action)
        /\ \A f \in queue' :
              \/ Invoked.time < f.time
              \/ Invoked.time = f.time /\ Invoked.priority <= f.priority
        /\ Invoked.action = "_read_status" =>
              ~\E f \in queue' : f.action = "_switch_algos" /\ f.time = Invoked.time
        /\ Invoked.action # "_stop_mining" =>
              ~\E f \in queue' : f.action = "_stop_mining" /\ f.time <= Invoked.time]_vars

\* C5 witness: _stop_mining has been invoked at the instant at which a
\* _switch_algos and a _read_status job, both still pending, are due too.
C5_Witness ==
    /\ pc = "sm_clear"
    /\ idx = 1
    /\ now = 0
    /\ \E e \in queue : e.action = "_switch_algos" /\ e.time = 0
    /\ \E e \in queue : e.action = "_read_status" /\ e.time = 0

\* C6: while the thread is Running, every device is in the device set of at
\* most one algorithm, also in the middle of the apply loop.
C6_DisjointDeviceSets ==
    Phase(pc) = "Running" =>
        \A d \in Devices : Cardinality({a \in Algorithms : d \in devs[a]}) <= 1

\* C7: when _switch_algos returns, every algorithm's device set is exactly
\* the set of devices the decision of this invocation maps to it, and
\* self._assignments is that decision.
C7_ApplyPostcondition ==
    [][(pc = "sw_enter" /\ pc' = "sched") =>
        /\ \A a \in Algorithms :
              devs'[a] = {d \in Devices : assigned_algorithm'[d] = a}
        /\ assignments' = assigned_algorithm']_vars

\* C7 witness: a later cycle has applied a decision that leaves one
\* algorithm without devices and is about to return.
C7_Witness ==
    /\ pc = "sw_enter"
    /\ posted >= 1
    /\ assigned_algorithm = [d \in Devices |-> "X"]
    /\ devs["X"] = Devices
    /\ devs["Y"] = {}

\* C8: when the download in _switch_algos fails, the payrates stay as they
\* were and the cycle goes on to the decision with the stale payrates.
C8_FetchFailureRecovers ==
    [][(pc = "sw_fetch" /\ fetch' \in {"URLError", "BadResponseError"})
            => (current_payrates' = current_payrates /\ pc' \in {"sw_fetch", "sw_decide"})]_vars

\* C9: an error raised by is_running, reload, current_speeds, set_devices or
\* decide inside _read_status or _switch_algos does not end the thread.
C9_JobErrorsContained ==
    raised \in {"_read_status.is_running", "_read_status.reload",
                "_read_status.current_speeds", "_switch_algos.set_devices",
                "_switch_algos.decide"}
        => pc # "crashed"

\* C10: a _read_status cycle that finds the engine of an active algorithm
\* not running calls reload() on it exactly once.
C10_ReloadOnce ==
    (pc \in StatusPcs /\ reloads >= 1) => reloads = 1

\* ----------------------------------------------- a second call of stop()
\* stop() called once more on the same thread, at any moment after an
\* earlier stop() returned (also after the thread has ended)
StopCallAgain ==
    /\ gui = "idle"
    /\ stops = MaxStops
    /\ queue' = Enter(queue, 0, STOP_PRIORITY, "_stop_mining")
    /\ sequence' = sequence + 1
    /\ gui' = "stop_set"
    /\ UNCHANGED <<now, interval, pc, raised, deadline, engineVars,
                   switchVars, idx, stopJobVars, statusVars, stops,
                   stoppedAt, stop_signal,
                   revenueVars>>

NextStopTwice ==
    \/ Next
    \/ StopCallAgain

SpecStopTwice == Init /\ [][NextStopTwice]_vars

\* C11: when stop() is called twice, the shutdown side effects happen at
\* most once: _stop_mining runs at most once and no miner is unloaded twice.
C11_StopIdempotent ==
    /\ sm_runs <= 1
    /\ \A m \in Miners : miners[m].unloads <= 1

\* ------------------------------------------------------------- fairness
\* a step of the mining thread: the statement it is at returns
ThreadStep ==
    \/ InitFetchOk
    \/ InitFetchFail
    \/ InitMiners
    \/ InitEnterProfit
    \/ InitEnterStatus
    \/ SchedExit
    \/ SchedDelay
    \/ WaitReturn
    \/ SchedPop
    \/ SwitchFetchOk
    \/ SwitchFetchFail
    \/ SwitchDecide
    \/ SwitchDecideFail
    \/ SwitchApply
    \/ SwitchApplyFail
    \/ SwitchEnter
    \/ StatusCheckRunning
    \/ StatusCheckReload
    \/ StatusCheckFail
    \/ StatusSpeeds
    \/ StatusSpeedsFail
    \/ StatusPost
    \/ StatusEnter
    \/ StopClear
    \/ StopClearFail
    \/ StopUnload
    \/ StopUnloadFail
    \/ StopQueue
    \/ StopCancel

\* Both threads keep being scheduled: every call the mining thread makes
\* returns, and so do stop() and, once the thread has ended, join()
FairSpec ==
    /\ Spec
    /\ WF_vars(ThreadStep)
    /\ WF_vars(StopSignal)
    /\ WF_vars(Join)

\* C12: once stop() has been called on a started thread, in whatever
\* lifecycle state, the thread ends and the join of the stop operation
\* returns.
C12_StopTerminates == (stops >= 1) ~> (pc \in DeadPcs /\ gui = "joined")

\* C12 witness: the stop operation returned for a thread that was stopped
\* while Initializing and ended by running _stop_mining.
C12_Witness ==
    /\ gui = "joined"
    /\ stoppedAt = "Initializing"
    /\ pc = "terminated"
    /\ sm_drained

\* ---------------------------------------------- the revenue table alone
\* largest pay rate per sub-algorithm tried
MaxRate == 2

\* pay rates a download may return, as bounded integers
PayRates == [SubAlgorithms -> 0..MaxRate]

\* benchmark speeds tried
Speeds == {5, 10}

\* self._benchmarks[device]: a speed list for some of the algorithms, one
\* speed per sub-algorithm
DeviceBenchmarks ==
    UNION {{b \in [named -> UNION {[1..n -> Speeds] : n \in 1..2}] :
                \A algorithm \in named :
                    Len(b[algorithm]) = Len(algorithms(algorithm))} :
           named \in SUBSET Algorithms}

\* the first _switch_algos invocation, after its download succeeded, for
\* any pay rates and any benchmark table
RevenueInit ==
    /\ now = 0
    /\ interval \in Intervals
    /\ pc = "sw_decide"
    /\ raised = "none"
    /\ queue = {Event(0, STATUS_PRIORITY, 1, "_read_status")}
    /\ sequence = 2
    /\ stop_signal = FALSE
    /\ deadline = 0
    /\ miners = [m \in Miners |-> [created |-> TRUE, running |-> TRUE, unloads |-> 0]]
    /\ devs = [a \in Algorithms |-> {}]
    /\ current_payrates \in PayRates
    /\ fetch = "ok"
    /\ assigned_algorithm = NoAssignments
    /\ assignments = NoAssignments
    /\ idx = 1
    /\ reloads = 0
    /\ sm_runs = 0
    /\ sm_cleared = {}
    /\ sm_unloaded = {}
    /\ sm_events = {}
    /\ sm_drained = FALSE
    /\ posted = 0
    /\ gui = "idle"
    /\ stops = 0
    /\ stoppedAt = "none"
    /\ benchmarks \in [Devices -> DeviceBenchmarks]
    /\ revenues = NoRevenues

RevenueNext ==
    \/ SwitchDecide
    \/ SwitchApply

RevenueSpec == RevenueInit /\ [][RevenueNext]_vars

\* C13: once _switch_algos has built its revenue table, the entry of every
\* device and algorithm is the sum, over the algorithm's sub-algorithms, of
\* the downloaded pay rate of the sub-algorithm times the device's benchmark
\* speed for it when the device has a benchmark entry for the algorithm, and
\* 0 otherwise; rates {A: 1, B: 2} and speeds [10, 5] give 20.
C13_RevenueTable ==
    pc \in {"sw_apply", "sw_enter"} =>
        \A device \in Devices :
            /\ revenues[device]["X"] =
                IF "X" \in DOMAIN benchmarks[device]
                THEN current_payrates["A"] * benchmarks[device]["X"][1]
                        + current_payrates["B"] * benchmarks[device]["X"][2]
                ELSE 0
            /\ revenues[device]["Y"] =
                IF "Y" \in DOMAIN benchmarks[device]
                THEN current_payrates["B"] * benchmarks[device]["Y"][1]
                ELSE 0
            /\ ( /\ current_payrates = [A |-> 1, B |-> 2]
                 /\ "X" \in DOMAIN benchmarks[device]
                 /\ benchmarks[device]["X"] = <<10, 5>> )
                    => revenues[device]["X"] = 20

\* C13 witness: the table has been built at rates {A: 1, B: 2} for a device
\* benchmarked at [10, 5] on X, which earns 20, and without a benchmark for
\* Y, which earns 0
C13_Witness ==
    /\ pc = "sw_apply"
    /\ current_payrates = [A |-> 1, B |-> 2]
    /\ DOMAIN benchmarks["d1"] = {"X"}
    /\ benchmarks["d1"]["X"] = <<10, 5>>
    /\ revenues["d1"]["X"] = 20
    /\ revenues["d1"]["Y"] = 0

\* C14: while the thread is initializing, a failed initial profitability
\* fetch (network error or malformed response) never ends the thread: the
\* thread stays in the fetch loop to try again.
C14_InitRetry ==
    [][(pc = "init_fetch" /\ fetch' \in {"URLError", "BadResponseError"})
            => pc' = "init_fetch"]_vars

\* C15: jobs run one at a time on the mining thread, and whenever
\* _read_status is executing, a _switch_algos invocation has run to its
\* last statement (its successor is pending in the scheduler), the pay
\* rates and the assignments are defined, the assignments are what the
\* latest decide() returned, and every algorithm holds exactly the devices
\* assigned to it: never a partially applied update.
C15_StatusReadsCompletedSwitch ==
    pc \in StatusPcs =>
        /\ current_payrates \in PayRateChoices
        /\ assignments \in Assignments
        /\ assignments = assigned_algorithm
        /\ \A algorithm \in Algorithms :
            devs[algorithm] =
                {device \in Devices : assignments[device] = algorithm}
        /\ \E e \in queue : e.action = "_switch_algos"

\* C15 witness: _read_status is executing after a second _switch_algos
\* invocation completed and moved the devices
C15_Witness ==
    /\ pc = "rs_speeds"
    /\ posted >= 1
    /\ \E e \in queue : e.action = "_switch_algos" /\ e.time >= 2 * interval
    /\ devs["X"] = {"d1"}
    /\ devs["Y"] = {"d2"}

\* C16: when stop() is called while the scheduler is blocked waiting for a
\* pending job whose due time is still in the future, the wait can return
\* as soon as the signal is set, whatever the time; the scheduler then
\* finds the stop job first and already due, so _stop_mining starts without
\* time having to reach the pending job's due time; and no _switch_algos or
\* _read_status invocation ever begins afterwards.
C16_StopInterruptsWait ==
    [][ /\ (pc = "wait" /\ stop_signal) => ENABLED WaitReturn
        /\ (stoppedAt = "Waiting" /\ pc = "sched" /\ sm_runs = 0) =>
                /\ QueueHead(queue).action = "_stop_mining"
                /\ QueueHead(queue).time <= now
        /\ stoppedAt = "Waiting" => ~(pc = "sched" /\ pc' \in PeriodicPcs)
      ]_vars

\* C16 witness: stop() was called during a wait, _stop_mining has started,
\* and every pending periodic job is still due in the future
C16_Witness ==
    /\ stoppedAt = "Waiting"
    /\ pc = "sm_clear"
    /\ sm_cleared = {}
    /\ queue # {}
    /\ \A e \in queue : e.action # "_stop_mining" /\ e.time > now

\* --------------------------------- a decision policy that may not assign
NextUnassigned ==
    \/ Next
    \/ SwitchDecideUnassigned
    \/ StatusCheckUnassigned

SpecUnassigned == Init /\ [][NextUnassigned]_vars

\* C17: every status event _read_status posts has the same key set in
\* speeds, revenue and devices, namely the algorithms that hold at least one
\* device under the current assignments; the device list of each such
\* algorithm is the inverse image of the assignments and equals the
\* algorithm's device set; and a device left unassigned makes _read_status
\* neither fail nor report a key for it.
C17_StatusSnapshot ==
    [][ /\ posted' = posted + 1 =>
            LET event == MiningStatusEvent(assignments) IN
            /\ event.speeds = DOMAIN event.devices
            /\ event.revenue = DOMAIN event.devices
            /\ DOMAIN event.devices =
                {algorithm \in Algorithms :
                    \E device \in Devices : assignments[device] = algorithm}
            /\ \A algorithm \in DOMAIN event.devices :
                /\ event.devices[algorithm] =
                    {device \in Devices : assignments[device] = algorithm}
                /\ event.devices[algorithm] = devs[algorithm]
        /\ pc \in StatusPcs => raised' # "_read_status.parent"
      ]_vars

\* C18: while _read_status is executing, the assignments, the pay rates and
\* every algorithm's device set stay as they are; a device set changes only
\* in the apply loop of _switch_algos or the clearing loop of _stop_mining;
\* and a step of stop() (or of join()) on the GUI thread changes nothing of
\* the mining thread except that it adds stop jobs to the queue and sets the
\* stop signal.
C18_SingleWriter ==
    [][ /\ pc \in StatusPcs =>
            UNCHANGED <<assignments, current_payrates, devs>>
        /\ devs' # devs => pc \in {"sw_apply", "sm_clear"}
        /\ gui' # gui =>
            /\ UNCHANGED <<now, interval, pc, raised, deadline, miners, devs,
                           current_payrates, fetch, assigned_algorithm,
                           assignments, idx, reloads, sm_runs, sm_cleared,
                           sm_unloaded, sm_events, sm_drained, posted,
                           benchmarks, revenues>>
            /\ queue \subseteq queue'
            /\ \A e \in queue' \ queue : e.action = "_stop_mining"
            /\ stop_signal => stop_signal'
      ]_vars

\* C18 witness: a _read_status that restarted a crashed engine is about to
\* report, with the devices still on the algorithms _switch_algos gave them
\* to, while stop() has entered its job and is about to set the signal
C18_Witness ==
    /\ pc = "rs_speeds"
    /\ reloads >= 1
    /\ gui = "stop_set"
    /\ \E e \in queue : e.action = "_stop_mining"
    /\ devs["X"] = {"d1", "d2"}
    /\ assignments = [device \in Devices |-> "X"]

\* C19: while the thread is Running with no job executing and _stop_mining
\* has not run, the scheduler holds exactly one pending _switch_algos and
\* exactly one pending _read_status (every other event is a stop job); once
\* a _stop_mining has drained the scheduler, no _switch_algos or
\* _read_status is pending, none is executing or waited for, and when the
\* scheduler finds the queue empty the loop exits.
C19_PeriodicJobsExactlyOnce ==
    [][ /\ (pc \in {"sched", "wait"} /\ sm_runs = 0) =>
            /\ Cardinality({e \in queue : e.action = "_switch_algos"}) = 1
            /\ Cardinality({e \in queue : e.action = "_read_status"}) = 1
        /\ (sm_runs > 0 /\ sm_drained) =>
            /\ \A e \in queue : e.action = "_stop_mining"
            /\ pc \notin {"wait"} \cup SwitchPcs \cup StatusPcs
        /\ (sm_runs > 0 /\ pc = "sched" /\ queue = {}) => pc' \in {"sched", "terminated"}
      ]_vars

\* C19 witness: after _switch_algos and _read_status have each re-entered
\* themselves the scheduler waits with one of each pending
C19_Witness ==
    /\ pc = "wait"
    /\ sm_runs = 0
    /\ posted >= 2
    /\ \E e \in queue : e.action = "_switch_algos" /\ e.time >= 2 * interval
    /\ \E e \in queue : e.action = "_read_status" /\ e.time = 2 * MINING_UPDATE_SECS

\* C19 witness after shutdown: _stop_mining drained a queue that held both
\* periodic jobs and the loop has exited
C19_WitnessExit ==
    /\ pc = "terminated"
    /\ sm_drained
    /\ queue = {}
    /\ Cardinality(sm_events) = 2

====
